---- MODULE Spec2Model ----
(***************************************************************************)
(* hal::can_router: routes the frames a CAN peripheral receives to the     *)
(* callback registered for the frame's identifier.                         *)
(*                                                                         *)
(* The state is the set of router objects (their m_can pointer and their   *)
(* m_handlers list), the receive callback slot of every CAN peripheral,    *)
(* and the handlers the last received frame invoked.                       *)
(***************************************************************************)
EXTENDS Integers, Sequences, FiniteSets

\* ---- bounds of the model ----------------------------------------------
\* The number of route items the application holds at any time
MaxItems == 2

\* ---- program constants --------------------------------------------------
\* hal::can* m_can = nullptr
nullptr == 0
\* can_router::noop, the handler that does nothing: the default handler of a
\* route and the callback the destructor hands back to the peripheral
noop == 0

\* Two router objects (enough for a move between distinct objects, a move
\* onto a bound router and a move from a detached one), two CAN peripherals
\* and two message identifiers
Routers == {1, 2}
Cans == {1, 2}
Ids == {1, 2}
Items == 1..MaxItems

\* struct route { id; handler; } together with the list item that stores it.
\* A handler is noop or the callback given when the item was made, which is
\* named after the item.
route == [id : Ids, handler : {noop} \cup Items, item : Items]

VARIABLES
  life,        \* life[r]: "unborn", "alive" or "destroyed"
  m_can,       \* m_can[r]: the peripheral router r points at, or nullptr
  m_handlers,  \* m_handlers[r]: the routes of router r, in list order
  on_receive,  \* on_receive[c]: noop, or the router the callback refers to
  rx,          \* <<c, id>> when the last step was peripheral c receiving a
               \* frame with identifier id, <<>> otherwise
  fired,       \* the handlers the last step called, in call order
  fault,       \* TRUE once the program ran into undefined behaviour
  scan         \* the activations of operator() that are under way, when the
               \* loop is followed step by step: none, or one

vars == <<life, m_can, m_handlers, on_receive, rx, fired, fault, scan>>

\* ---- helpers -------------------------------------------------------------
Min(S) == CHOOSE x \in S : \A y \in S : x <= y

ItemsOf(list) == {list[i].item : i \in 1..Len(list)}

\* The items that store a route of some list
Linked == UNION {ItemsOf(m_handlers[r]) : r \in Routers}

Alive(r) == life[r] = "alive"

\* A router that is bound to a peripheral
Active(r) == Alive(r) /\ m_can[r] # nullptr

\* The router that peripheral c hands its frames to, when it is a live one
Routed(c) == on_receive[c] # noop /\ Alive(on_receive[c])

\* No step but the reception of a frame calls a handler
Quiet == rx' = <<>> /\ fired' = <<>>

\* ---- can_router::operator()(message) -------------------------------------
RECURSIVE Scan_LastMatch(_, _)
Scan_LastMatch(list, id) ==
  IF list = <<>> THEN <<>>
  ELSE IF Scan_LastMatch(Tail(list), id) # <<>>
       THEN Scan_LastMatch(Tail(list), id)
       ELSE IF id = Head(list).id THEN <<Head(list).handler>> ELSE <<>>

Scan_IgnoreId(list, id) ==
  IF list = <<>> THEN <<>> ELSE <<Head(list).handler>>

RECURSIVE Scan_SkipNoop(_, _)
Scan_SkipNoop(list, id) ==
  IF list = <<>> THEN <<>>
  ELSE IF id = Head(list).id /\ Head(list).handler # noop
       THEN <<Head(list).handler>>
       ELSE Scan_SkipNoop(Tail(list), id)

\* The handlers the loop over `list` calls for a message with identifier
\* `id`, in the order of the calls: the handler of the first route whose id
\* equals the message's, after which the function returns.
RECURSIVE Scan(_, _)
Scan(list, id) ==
  IF list = <<>> THEN <<>>
  ELSE IF id = Head(list).id
       THEN <<Head(list).handler>>
       ELSE Scan(Tail(list), id)

\* ---- can_router::can_router(hal::can&) ----------------------------------
Construct(r, c) ==
  /\ ~fault
  /\ life[r] = "unborn"
  /\ life' = [life EXCEPT ![r] = "alive"]
  \* m_can(&p_can)
  /\ m_can' = [m_can EXCEPT ![r] = c]
  \* m_can->on_receive(std::ref((*this)));
  /\ on_receive' = [on_receive EXCEPT ![c] = r]
  /\ Quiet
  /\ UNCHANGED scan
  /\ UNCHANGED <<m_handlers, fault>>

\* ---- can_router::operator=(can_router&&) --------------------------------
MoveEffect_NoDetach(dst, src, keep) ==
  /\ m_handlers' =
       IF dst = src
       THEN [m_handlers EXCEPT ![dst] = IF keep THEN @ ELSE <<>>]
       ELSE [m_handlers EXCEPT ![dst] = m_handlers[src], ![src] = <<>>]
  /\ IF m_can[src] = nullptr
     THEN /\ m_can' = [m_can EXCEPT ![dst] = nullptr]
          /\ fault' = TRUE
          /\ UNCHANGED on_receive
     ELSE /\ on_receive' = [on_receive EXCEPT ![m_can[src]] = dst]
          /\ m_can' = [m_can EXCEPT ![dst] = m_can[src]]
          /\ UNCHANGED fault

MoveEffect_RefOther(dst, src, keep) ==
  /\ m_handlers' =
       IF dst = src
       THEN [m_handlers EXCEPT ![dst] = IF keep THEN @ ELSE <<>>]
       ELSE [m_handlers EXCEPT ![dst] = m_handlers[src], ![src] = <<>>]
  /\ IF m_can[src] = nullptr
     THEN /\ m_can' = [m_can EXCEPT ![dst] = nullptr]
          /\ fault' = TRUE
          /\ UNCHANGED on_receive
     ELSE /\ on_receive' = [on_receive EXCEPT ![m_can[src]] = src]
          /\ m_can' = [m_can EXCEPT ![dst] = m_can[src], ![src] = nullptr]
          /\ UNCHANGED fault

MoveEffect_DropRoutes(dst, src, keep) ==
  /\ m_handlers' = [m_handlers EXCEPT ![dst] = <<>>, ![src] = <<>>]
  /\ IF m_can[src] = nullptr
     THEN /\ m_can' = [m_can EXCEPT ![dst] = nullptr]
          /\ fault' = TRUE
          /\ UNCHANGED on_receive
     ELSE /\ on_receive' = [on_receive EXCEPT ![m_can[src]] = dst]
          /\ m_can' = [m_can EXCEPT ![dst] = m_can[src], ![src] = nullptr]
          /\ UNCHANGED fault

MoveEffect_Reorder(dst, src, keep) ==
  /\ m_handlers' =
       IF dst = src
       THEN [m_handlers EXCEPT ![dst] = IF keep THEN @ ELSE <<>>]
       ELSE [m_handlers EXCEPT
               ![dst] = [i \in 1..Len(m_handlers[src]) |->
                           m_handlers[src][Len(m_handlers[src]) + 1 - i]],
               ![src] = <<>>]
  /\ IF m_can[src] = nullptr
     THEN /\ m_can' = [m_can EXCEPT ![dst] = nullptr]
          /\ fault' = TRUE
          /\ UNCHANGED on_receive
     ELSE /\ on_receive' = [on_receive EXCEPT ![m_can[src]] = dst]
          /\ m_can' = [m_can EXCEPT ![dst] = m_can[src], ![src] = nullptr]
          /\ UNCHANGED fault

\* The members of `dst` and `src` after the body of the move assignment ran on
\* them. `keep` is what a list that is move-assigned to itself is left with:
\* its routes, or nothing.
MoveEffect(dst, src, keep) ==
  \* m_handlers = std::move(p_other.m_handlers);
  /\ m_handlers' =
       IF dst = src
       THEN [m_handlers EXCEPT ![dst] = IF keep THEN @ ELSE <<>>]
       ELSE [m_handlers EXCEPT ![dst] = m_handlers[src], ![src] = <<>>]
  \* m_can = p_other.m_can; m_can->on_receive(std::ref(*this));
  /\ IF m_can[src] = nullptr
     THEN \* the call goes through a null pointer
          /\ m_can' = [m_can EXCEPT ![dst] = nullptr]
          /\ fault' = TRUE
          /\ UNCHANGED on_receive
     ELSE /\ on_receive' = [on_receive EXCEPT ![m_can[src]] = dst]
          \* p_other.m_can = nullptr;
          /\ m_can' = [m_can EXCEPT ![dst] = m_can[src], ![src] = nullptr]
          /\ UNCHANGED fault

MoveAssign(dst, src) ==
  /\ ~fault
  /\ Alive(dst)
  /\ Alive(src)
  /\ \E keep \in (IF dst = src THEN BOOLEAN ELSE {TRUE}) :
       MoveEffect(dst, src, keep)
  /\ Quiet
  /\ UNCHANGED scan
  /\ UNCHANGED life

\* ---- can_router::can_router(can_router&&) -------------------------------
\* The new object starts from its default member initialisers (an empty list
\* and a null m_can) and is then move-assigned from p_other.
MoveConstruct(dst, src) ==
  /\ ~fault
  /\ life[dst] = "unborn"
  /\ Alive(src)
  /\ life' = [life EXCEPT ![dst] = "alive"]
  /\ MoveEffect(dst, src, TRUE)
  /\ Quiet
  /\ UNCHANGED scan

\* ---- can_router::~can_router() ------------------------------------------
Destroy_NoReset(r) ==
  /\ ~fault
  /\ Alive(r)
  /\ life' = [life EXCEPT ![r] = "destroyed"]
  /\ m_handlers' = [m_handlers EXCEPT ![r] = <<>>]
  /\ m_can' = [m_can EXCEPT ![r] = nullptr]
  /\ Quiet
  /\ UNCHANGED scan
  /\ UNCHANGED <<on_receive, fault>>

Destroy_NoCheck(r) ==
  /\ ~fault
  /\ Alive(r)
  /\ life' = [life EXCEPT ![r] = "destroyed"]
  /\ on_receive' = IF m_can[r] # nullptr
                   THEN [on_receive EXCEPT ![m_can[r]] = noop]
                   ELSE on_receive
  /\ fault' = (m_can[r] = nullptr)
  /\ m_handlers' = [m_handlers EXCEPT ![r] = <<>>]
  /\ m_can' = [m_can EXCEPT ![r] = nullptr]
  /\ Quiet
  /\ UNCHANGED scan

Destroy(r) ==
  /\ ~fault
  /\ Alive(r)
  /\ life' = [life EXCEPT ![r] = "destroyed"]
  \* if (m_can) { m_can->on_receive(noop); }
  /\ on_receive' = IF m_can[r] # nullptr
                   THEN [on_receive EXCEPT ![m_can[r]] = noop]
                   ELSE on_receive
  \* the object is gone: its list has let go of its items
  /\ m_handlers' = [m_handlers EXCEPT ![r] = <<>>]
  /\ m_can' = [m_can EXCEPT ![r] = nullptr]
  /\ Quiet
  /\ UNCHANGED scan
  /\ UNCHANGED fault

\* ---- can_router::add_message_callback -----------------------------------
\* A route for identifier `id` stored in item k: add_message_callback(p_id)
\* leaves the default handler, noop; add_message_callback(p_id, p_handler)
\* stores p_handler.
NewRoute(id, k, with_handler) ==
  [id |-> id, handler |-> IF with_handler THEN k ELSE noop, item |-> k]

push_back_Full(list, rt) == IF Len(list) >= 1 THEN list ELSE Append(list, rt)

\* m_handlers.push_back(route{...}): the route goes to the end of the list
push_back(list, rt) == Append(list, rt)

\* The item returned goes to the caller, who keeps it.
add_message_callback(r, id, with_handler) ==
  /\ ~fault
  /\ Alive(r)
  /\ Linked # Items
  /\ m_handlers' = [m_handlers EXCEPT ![r] =
                      push_back(@, NewRoute(id, Min(Items \ Linked),
                                            with_handler))]
  /\ Quiet
  /\ UNCHANGED scan
  /\ UNCHANGED <<life, m_can, on_receive, fault>>

\* ---- static_list<route>::item::~item() ----------------------------------
Unlink_Keeps(list, k) == list

\* The list without the route stored in item k
RECURSIVE Unlink(_, _)
Unlink(list, k) ==
  IF list = <<>> THEN <<>>
  ELSE IF Head(list).item = k THEN Unlink(Tail(list), k)
  ELSE <<Head(list)>> \o Unlink(Tail(list), k)

\* The application lets go of item k: its route leaves the list it is in.
Discard(k) ==
  /\ ~fault
  /\ k \in Linked
  /\ m_handlers' = [r \in Routers |-> Unlink(m_handlers[r], k)]
  /\ Quiet
  /\ UNCHANGED scan
  /\ UNCHANGED <<life, m_can, on_receive, fault>>

\* ---- the peripheral receives a frame ------------------------------------
\* hal::can calls the callback that on_receive installed with the message.
Receive(c, id) ==
  /\ ~fault
  /\ rx' = <<c, id>>
  /\ IF on_receive[c] = noop
     THEN fired' = <<>> /\ UNCHANGED fault
     ELSE IF Alive(on_receive[c])
     THEN fired' = Scan(m_handlers[on_receive[c]], id) /\ UNCHANGED fault
     ELSE \* the callback refers to a router that was destroyed
          /\ fired' = <<>>
          /\ fault' \in BOOLEAN
  /\ UNCHANGED <<life, m_can, m_handlers, on_receive, scan>>

\* ---- the specification ---------------------------------------------------
Init ==
  /\ life = [r \in Routers |-> "unborn"]
  /\ m_can = [r \in Routers |-> nullptr]
  /\ m_handlers = [r \in Routers |-> <<>>]
  /\ on_receive = [c \in Cans |-> noop]
  /\ rx = <<>>
  /\ fired = <<>>
  /\ fault = FALSE
  /\ scan = <<>>

Next ==
  \/ \E r \in Routers, c \in Cans : Construct(r, c)
  \/ \E dst \in Routers, src \in Routers : MoveAssign(dst, src)
  \/ \E dst \in Routers, src \in Routers : MoveConstruct(dst, src)
  \/ \E r \in Routers : Destroy(r)
  \/ \E r \in Routers, id \in Ids, with_handler \in BOOLEAN :
       add_message_callback(r, id, with_handler)
  \/ \E k \in Items : Discard(k)
  \/ \E c \in Cans, id \in Ids : Receive(c, id)

Spec == Init /\ [][Next]_vars

TypeOK ==
  /\ life \in [Routers -> {"unborn", "alive", "destroyed"}]
  /\ m_can \in [Routers -> {nullptr} \cup Cans]
  /\ \A r \in Routers : m_handlers[r] \in Seq(route)
  /\ on_receive \in [Cans -> {noop} \cup Routers]
  /\ rx \in {<<>>} \cup (Cans \X Ids)
  /\ fired \in Seq({noop} \cup Items)
  /\ fault \in BOOLEAN
  /\ scan \in {<<>>} \cup
       {<<f>> : f \in [self : Routers, id : Ids,
                       it : {<<>>} \cup {<<rt>> : rt \in route},
                       pc : {"loop", "called"}]}

\* ---- can_router::operator()(message), one iteration at a time ------------
\* An activation of operator() is a record: self, the router it runs on; id,
\* the identifier of its message; it, the iterator of the loop, <<>> past the
\* end or <<rt>> with the route it pointed at when it got there; pc, "loop"
\* inside the loop and "called" after the call of a handler.

\* The effects a handler of the application can have on the lists
Effects == {"none", "add", "discard"}

\* m_handlers.begin()
begin(list) == IF list = <<>> THEN <<>> ELSE <<list[1]>>

\* The positions of `list` that item k stores
Where(list, k) == {i \in 1..Len(list) : list[i].item = k}

increment_Stay(list, k) == <<list[Min(Where(list, k))]>>

\* ++it, for an iterator at item k of `list`
increment(list, k) ==
  IF Min(Where(list, k)) = Len(list)
  THEN <<>>
  ELSE <<list[Min(Where(list, k)) + 1]>>

\* The peripheral c calls the router with a frame: the loop starts
Dispatch_begin(c, id) ==
  /\ ~fault
  /\ scan = <<>>
  /\ Routed(c)
  /\ scan' = <<[self |-> on_receive[c], id |-> id,
                it |-> begin(m_handlers[on_receive[c]]), pc |-> "loop"]>>
  /\ rx' = <<c, id>>
  /\ fired' = <<>>
  /\ UNCHANGED <<life, m_can, m_handlers, on_receive, fault>>

\* What handler h, called by router r, does to the lists; noop does nothing,
\* a handler of the application may register a route or let go of an item,
\* its own included.
HandlerRuns(r, h, effects) ==
  \/ m_handlers' = m_handlers /\ (h = noop \/ "none" \in effects)
  \/ /\ h # noop
     /\ "add" \in effects
     /\ Linked # Items
     /\ \E id \in Ids, with_handler \in BOOLEAN :
          m_handlers' = [m_handlers EXCEPT ![r] =
                           push_back(@, NewRoute(id, Min(Items \ Linked),
                                                 with_handler))]
  \/ /\ h # noop
     /\ "discard" \in effects
     /\ \E k \in Linked :
          m_handlers' = [q \in Routers |-> Unlink(m_handlers[q], k)]

\* The body of the loop for activation f, whose iterator reads route rt and
\* would move on to `nxt`:
\*   if (p_message.id == list_handler.id) { list_handler.handler(p_message);
Iterate(f, rt, nxt, effects) ==
  IF f.id = rt.id
  THEN /\ fired' = <<rt.handler>>
       /\ HandlerRuns(f.self, rt.handler, effects)
       /\ scan' = <<[f EXCEPT !.pc = "called"]>>
  ELSE /\ scan' = <<[f EXCEPT !.it = nxt]>>
       /\ UNCHANGED <<fired, m_handlers>>

\* for (auto& list_handler : m_handlers) { ... }: one test of the iterator
\* and, when it is not at the end, one run of the body
Dispatch_loop(effects) ==
  /\ ~fault
  /\ scan # <<>>
  /\ scan[1].pc = "loop"
  /\ LET f    == scan[1]
         list == m_handlers[f.self]
     IN  IF f.it = <<>>
         THEN \* the iterator is at the end: the function returns
              /\ scan' = <<>>
              /\ UNCHANGED <<fired, m_handlers, fault>>
         ELSE IF Where(list, f.it[1].item) # {}
         THEN /\ Iterate(f, list[Min(Where(list, f.it[1].item))],
                         increment(list, f.it[1].item), effects)
              /\ UNCHANGED fault
         ELSE \* the item the iterator points at was destroyed: the read
              \* goes wrong, or finds what the item held and a next pointer
              \* that leads anywhere in the list or to the end
              \/ /\ fault' = TRUE
                 /\ UNCHANGED <<scan, fired, m_handlers>>
              \/ /\ \E nxt \in {<<>>} \cup {<<list[i]>> : i \in 1..Len(list)} :
                      Iterate(f, f.it[1], nxt, effects)
                 /\ UNCHANGED fault
  /\ UNCHANGED <<life, m_can, on_receive, rx>>

Dispatch_return_Continue ==
  /\ ~fault
  /\ scan # <<>>
  /\ scan[1].pc = "called"
  /\ scan' = <<[scan[1] EXCEPT !.pc = "loop"]>>
  /\ UNCHANGED <<life, m_can, m_handlers, on_receive, rx, fired, fault>>

\* return; after the call of the handler
Dispatch_return ==
  /\ ~fault
  /\ scan # <<>>
  /\ scan[1].pc = "called"
  /\ scan' = <<>>
  /\ UNCHANGED <<life, m_can, m_handlers, on_receive, rx, fired, fault>>

\* The router used from one context: the application constructs routers,
\* registers routes and lets go of items while no frame is being dispatched,
\* and a handler may change the lists while it runs.
NextDispatch ==
  \/ \E r \in Routers, c \in Cans : scan = <<>> /\ Construct(r, c)
  \/ \E r \in Routers, id \in Ids, with_handler \in BOOLEAN :
       scan = <<>> /\ add_message_callback(r, id, with_handler)
  \/ \E k \in Items : scan = <<>> /\ Discard(k)
  \/ \E c \in Cans, id \in Ids : Dispatch_begin(c, id)
  \/ Dispatch_loop(Effects)
  \/ Dispatch_return

\* operator() runs to its end once the peripheral has called it: nothing in
\* the function waits.
SpecDispatch ==
  /\ Init
  /\ [][NextDispatch]_vars
  /\ WF_vars(Dispatch_loop(Effects))
  /\ WF_vars(Dispatch_return)

\* The router used from two contexts without any exclusion between a dispatch
\* and the release of an item: the application lets go of items between any
\* two steps of a dispatch that the peripheral's interrupt started
\* (Dispatch_begin and the steps after it). Routers are constructed and routes
\* registered while no dispatch is under way, where a dispatch may also run as
\* a whole, between two steps of the application (Receive). One dispatch runs
\* at a time.
NextRace ==
  \/ \E r \in Routers, c \in Cans : scan = <<>> /\ Construct(r, c)
  \/ \E r \in Routers, id \in Ids, with_handler \in BOOLEAN :
       scan = <<>> /\ add_message_callback(r, id, with_handler)
  \/ \E k \in Items : Discard(k)
  \/ \E c \in Cans, id \in Ids : scan = <<>> /\ Receive(c, id)
  \/ \E c \in Cans, id \in Ids : Dispatch_begin(c, id)
  \/ Dispatch_loop({"none"})
  \/ Dispatch_return

SpecRace == Init /\ [][NextRace]_vars

\* ---- properties ----------------------------------------------------------
\* The positions of `list` whose route has identifier `id`
Matches(list, id) == {i \in 1..Len(list) : list[i].id = id}

\* A move from router src into another router dst
MoveStep(dst, src) == MoveAssign(dst, src) \/ MoveConstruct(dst, src)

\* C1: when a peripheral hands a frame to a live router and routes of that
\* router have the frame's identifier, exactly one handler is called, once:
\* the handler of the route that comes first in the list, which is the one
\* registered first. No handler of a later route with the same identifier
\* and no handler of a route with another identifier is called.
C1_FirstMatch ==
  [][\A c \in Cans, id \in Ids :
       (Receive(c, id) /\ Routed(c)
          /\ Matches(m_handlers[on_receive[c]], id) # {})
       => LET list == m_handlers[on_receive[c]]
          IN  fired' = <<list[Min(Matches(list, id))].handler>>]_vars

C1_Witness ==
  /\ rx # <<>>
  /\ Routed(rx[1])
  /\ LET list == m_handlers[on_receive[rx[1]]]
     IN  /\ Len(list) >= 2
         /\ list[1].id = rx[2]
         /\ list[2].id = rx[2]
         /\ list[1].handler # noop
         /\ list[2].handler # noop
         /\ fired = <<list[1].handler>>

\* C2: letting go of an item takes exactly its route out of the list that
\* holds it: the other routes of that list keep their order, the other lists
\* and the routers' bindings do not change, and a frame with the identifier of
\* the removed route is from then on handed to the first remaining route with
\* that identifier, and to no handler when there is none.
C2_DiscardRemovesOne ==
  [][\A k \in Items :
       Discard(k)
       => /\ UNCHANGED <<life, m_can, on_receive>>
          /\ \A r \in Routers :
               LET list == m_handlers[r]
                   at   == {i \in 1..Len(list) : list[i].item = k}
               IN  IF at = {}
                   THEN m_handlers'[r] = list
                   ELSE LET i    == Min(at)
                            rest == [j \in 1..(Len(list) - 1) |->
                                       IF j < i THEN list[j] ELSE list[j + 1]]
                            same == Matches(rest, list[i].id)
                        IN  /\ at = {i}
                            /\ m_handlers'[r] = rest
                            /\ Scan(m_handlers'[r], list[i].id) =
                                 IF same = {} THEN <<>>
                                 ELSE <<rest[Min(same)].handler>>]_vars

\* A frame was handed to the second-registered route of an identifier after
\* the first one was let go
C2_Witness ==
  /\ rx # <<>>
  /\ Routed(rx[1])
  /\ LET list == m_handlers[on_receive[rx[1]]]
     IN  /\ Len(list) = 1
         /\ list[1].item = 2
         /\ list[1].id = rx[2]
         /\ list[1].handler # noop
         /\ fired = <<list[1].handler>>

\* C3: a move from an active router into another router keeps the dispatch:
\* for every identifier the destination calls, after the move, the handlers
\* the source called before it, and the peripheral the source was bound to
\* hands its frames to the destination.
C3_MovePreservesDispatch ==
  [][\A dst \in Routers, src \in Routers :
       (dst # src /\ Active(src) /\ MoveStep(dst, src))
       => /\ \A id \in Ids :
               Scan(m_handlers'[dst], id) = Scan(m_handlers[src], id)
          /\ m_handlers'[dst] = m_handlers[src]
          /\ on_receive'[m_can[src]] = dst
          /\ ~fault']_vars

\* A frame reached a handler through a router that took its routes over
C3_Witness ==
  /\ rx # <<>>
  /\ Routed(rx[1])
  /\ fired # <<>>
  /\ fired[1] # noop
  /\ \E src \in Routers :
       /\ src # on_receive[rx[1]]
       /\ Alive(src)
       /\ m_can[src] = nullptr
       /\ m_can[on_receive[rx[1]]] = rx[1]

\* C4: destroying a router that is bound to a peripheral leaves that
\* peripheral with the noop callback, and a frame received by a peripheral
\* whose callback is noop calls no handler and changes no router.
C4_DestroyResets ==
  [][/\ \A r \in Routers :
          (Destroy(r) /\ m_can[r] # nullptr)
          => on_receive'[m_can[r]] = noop
     /\ \A c \in Cans, id \in Ids :
          (Receive(c, id) /\ on_receive[c] = noop)
          => /\ fired' = <<>>
             /\ UNCHANGED <<life, m_can, m_handlers, on_receive, fault>>]_vars

\* A frame arrived at a peripheral whose router was destroyed
C4_Witness ==
  /\ rx # <<>>
  /\ on_receive[rx[1]] = noop
  /\ fired = <<>>
  /\ ~fault
  /\ \E r \in Routers : life[r] = "destroyed"
  /\ \A r \in Routers : ~Active(r)

\* C5: no peripheral's callback refers to a router that was destroyed.
C5_NoDanglingCallback ==
  \A c \in Cans :
    on_receive[c] # noop => life[on_receive[c]] # "destroyed"

\* C6 and C7 speak of the peripheral a router is constructed on: a step that
\* constructs a router on a peripheral a live router already points at
SharedConstruct ==
  \E r \in Routers, c \in Cans :
    /\ Construct(r, c)
    /\ \E q \in Routers : Alive(q) /\ m_can[q] = c

\* Every active router is the one its peripheral hands its frames to
Bound == \A r \in Routers : Active(r) => on_receive[m_can[r]] = r

\* No two live routers point at the same peripheral
SingleActive ==
  \A r \in Routers, q \in Routers :
    (r # q /\ Active(r) /\ Active(q)) => m_can[r] # m_can[q]

\* C6 as stated: in every reachable state every active router is the receive
\* target of its peripheral.
C6_Original == Bound

\* C6, amended: the binding holds at the start and every step keeps it, except
\* the construction of a router on a peripheral that a live router already
\* points at.
C6_BindingKept ==
  [][(Bound /\ SingleActive /\ ~SharedConstruct) => Bound']_vars

\* A router took the peripheral of another over and is its receive target
C6_Witness ==
  /\ Bound
  /\ \E dst \in Routers, src \in Routers :
       /\ dst # src
       /\ Active(dst)
       /\ Alive(src)
       /\ m_can[src] = nullptr
       /\ on_receive[m_can[dst]] = dst

\* C7 as stated: in every reachable state at most one router points at any
\* given peripheral.
C7_Original == SingleActive

\* C7, amended: no step other than the construction of a router on a
\* peripheral that a live router already points at makes a second router
\* point at a peripheral.
C7_SingleActiveKept ==
  [][(SingleActive /\ ~SharedConstruct) => SingleActive']_vars

\* Two live routers, one moved into the other, and one of them detached
C7_Witness ==
  /\ SingleActive
  /\ \E dst \in Routers, src \in Routers :
       /\ dst # src
       /\ Active(dst)
       /\ Alive(src)
       /\ m_can[src] = nullptr
       /\ m_handlers[dst] # <<>>

C9_SilentDrop ==
  [][\A c \in Cans, id \in Ids :
       (Receive(c, id) /\ Routed(c)
          /\ Matches(m_handlers[on_receive[c]], id) = {})
       => /\ fired' = <<>>
          /\ UNCHANGED <<life, m_can, m_handlers, on_receive, fault>>]_vars

\* A frame was dropped by a router that holds routes for other identifiers
C9_Witness ==
  /\ rx # <<>>
  /\ Routed(rx[1])
  /\ m_handlers[on_receive[rx[1]]] # <<>>
  /\ Matches(m_handlers[on_receive[rx[1]]], rx[2]) = {}
  /\ fired = <<>>
  /\ ~fault

\* C10: a move into another router leaves the source detached, and the
\* destruction of a detached router changes no callback and no other
\* router's list, and runs into no fault.
C10_DetachedDestroyNoop ==
  [][/\ \A dst \in Routers, src \in Routers :
          (dst # src /\ MoveStep(dst, src) /\ ~fault')
          => m_can'[src] = nullptr
     /\ \A r \in Routers :
          (Destroy(r) /\ m_can[r] = nullptr)
          => /\ on_receive' = on_receive
             /\ fault' = fault
             /\ \A q \in Routers \ {r} :
                  m_handlers'[q] = m_handlers[q] /\ m_can'[q] = m_can[q]]_vars

\* The source of a move was destroyed and the destination still receives
C10_Witness ==
  \E dst \in Routers, src \in Routers :
    /\ life[src] = "destroyed"
    /\ Active(dst)
    /\ on_receive[m_can[dst]] = dst
    /\ m_handlers[dst] # <<>>
    /\ rx = <<>>

\* C11: a registration without a handler stores a route whose handler is noop,
\* and that route is matched like any other: a frame whose first matching
\* route has the noop handler calls noop and nothing else, so no handler of
\* the application runs, even when a later route of the list has the same
\* identifier and a handler of the application.
C11_NoopRouteShadows ==
  [][/\ \A r \in Routers, id \in Ids :
          add_message_callback(r, id, FALSE)
          => LET new == m_handlers'[r][Len(m_handlers'[r])]
             IN  new.id = id /\ new.handler = noop
     /\ \A c \in Cans, id \in Ids :
          LET list == m_handlers[on_receive[c]]
          IN  (Receive(c, id) /\ Routed(c) /\ Matches(list, id) # {}
                 /\ list[Min(Matches(list, id))].handler = noop)
              => /\ fired' = <<noop>>
                 /\ UNCHANGED <<life, m_can, m_handlers, on_receive,
                                fault>>]_vars

\* A frame went to a route without a handler that stands before a route with
\* the same identifier and a handler
C11_Witness ==
  /\ rx # <<>>
  /\ Routed(rx[1])
  /\ LET list == m_handlers[on_receive[rx[1]]]
     IN  /\ Len(list) >= 2
         /\ list[1].id = rx[2]
         /\ list[1].handler = noop
         /\ list[2].id = rx[2]
         /\ list[2].handler # noop
         /\ fired = <<noop>>

\* A live router that is bound to no peripheral
Detached(r) == Alive(r) /\ m_can[r] = nullptr

\* C12 as stated: no step takes a detached router back to active.
C12_Original ==
  [][\A r \in Routers : Detached(r) => ~Active(r)']_vars

\* C12, amended: a router starts active; it leaves the active state when it
\* is destroyed, when it is the source of a move, or when it is assigned from
\* a detached source (which runs into the null pointer); a detached router
\* becomes active again when, and only when, it is move-assigned from an
\* active router; a move between two routers leaves the source detached and
\* the destination active; a destroyed router stays destroyed.
C12_LifecycleSteps ==
  [][\A r \in Routers :
       /\ (life[r] = "unborn" /\ Alive(r)') => (Active(r)' \/ fault')
       /\ (Detached(r) /\ Active(r)')
            => \E src \in Routers \ {r} : MoveAssign(r, src) /\ Active(src)
       /\ (Active(r) /\ ~Active(r)')
            => \/ Destroy(r)
               \/ \E dst \in Routers : MoveStep(dst, r)
               \/ \E src \in Routers :
                    MoveAssign(r, src) /\ Detached(src) /\ fault'
       /\ \A src \in Routers \ {r} :
            (MoveStep(r, src) /\ Active(src))
            => Active(r)' /\ Detached(src)'
       /\ life[r] = "destroyed" => life'[r] = "destroyed"]_vars

\* One router is active and holds routes, the other is live and detached,
\* and only one peripheral has a callback: the state after a router was
\* moved away and assigned back
C12_Witness ==
  \E r \in Routers, q \in Routers :
    /\ Active(r)
    /\ Detached(q)
    /\ m_handlers[r] # <<>>
    /\ on_receive[m_can[r]] = r
    /\ \A c \in Cans \ {m_can[r]} : on_receive[c] = noop
    /\ ~fault

\* The list without its i-th route
Without(list, i) ==
  [j \in 1..(Len(list) - 1) |-> IF j < i THEN list[j] ELSE list[j + 1]]

\* C13: a move from a router into another one hands the routes over as they
\* are: the destination holds the routes the source held, with the same
\* identifiers and handlers in the same order and in the same items, the
\* source holds none, and letting go of any of these items after the move
\* takes exactly its route out of the destination's list.
C13_HandlesSurviveMove ==
  [][\A dst \in Routers, src \in Routers :
       (dst # src /\ MoveStep(dst, src))
       => LET old == m_handlers[src]
              new == m_handlers'[dst]
          IN  /\ Len(new) = Len(old)
              /\ \A i \in 1..Len(old) :
                   /\ new[i].id = old[i].id
                   /\ new[i].handler = old[i].handler
                   /\ new[i].item = old[i].item
                   /\ Unlink(new, old[i].item) = Without(old, i)
              /\ m_handlers'[src] = <<>>
              /\ ItemsOf(old) \subseteq Linked']_vars

\* The destination of a move holds the second route of the list it took
\* over, after the first was let go
C13_Witness ==
  \E dst \in Routers, src \in Routers :
    /\ Active(dst)
    /\ Detached(src)
    /\ on_receive[m_can[dst]] = dst
    /\ Len(m_handlers[dst]) = 1
    /\ m_handlers[dst][1].item = 2
    /\ m_handlers[dst][1].handler # noop
    /\ rx = <<>>

\* C16: a peripheral's callback refers only to a router that is active and
\* bound to that peripheral.
C16_TargetIsBound ==
  \A c \in Cans :
    on_receive[c] # noop => (Active(on_receive[c]) /\ m_can[on_receive[c]] = c)

\* C17: no move assignment and no move construction calls on_receive through
\* a null m_can, whatever the state of the source.
C17_NoNullDereference ==
  [][\A dst \in Routers, src \in Routers :
       MoveStep(dst, src) => ~fault']_vars

\* The position of the iterator of activation f in the list it runs over,
\* one past the length of the list when it is at the end
Position(f, lists) ==
  IF f.it = <<>>
  THEN Len(lists[f.self]) + 1
  ELSE Min(Where(lists[f.self], f.it[1].item) \cup {Len(lists[f.self]) + 2})

\* C14: a dispatch that nothing interferes with ends. Its iterator is always
\* at a route of the list or at the end, with no route of the frame's
\* identifier before it; every run of the loop body either calls the handler
\* of the route at the iterator, which is then the first route with the
\* frame's identifier, and goes on to return, or moves the iterator forward
\* by one route; at the end of the list the function returns. So it compares
\* at most as many routes as the list holds, and every dispatch that started
\* returns.
C14_DispatchTerminates ==
  /\ [](scan # <<>> /\ scan[1].pc = "loop"
        => LET f == scan[1]
               list == m_handlers[f.self]
           IN  /\ Position(f, m_handlers) <= Len(list) + 1
               /\ \A j \in 1..(Position(f, m_handlers) - 1) :
                    list[j].id # f.id)
  /\ [][scan # <<>>
        => LET f == scan[1]
               list == m_handlers[f.self]
               at == Position(f, m_handlers)
           IN  IF f.pc = "called" \/ at = Len(list) + 1
               THEN scan' = <<>> /\ fired' = fired
               ELSE IF list[at].id = f.id
               THEN /\ at = Min(Matches(list, f.id))
                    /\ fired' = <<list[at].handler>>
                    /\ scan' = <<[f EXCEPT !.pc = "called"]>>
               ELSE /\ scan' # <<>>
                    /\ scan'[1].pc = "loop"
                    /\ Position(scan'[1], m_handlers') = at + 1
                    /\ m_handlers' = m_handlers
                    /\ fired' = fired]_vars
  /\ (scan # <<>>) ~> (scan = <<>>)

\* A dispatch went over a list of MaxItems routes, found no route with the
\* frame's identifier and returned
C14_Witness ==
  /\ scan = <<>>
  /\ rx # <<>>
  /\ Routed(rx[1])
  /\ Len(m_handlers[on_receive[rx[1]]]) = MaxItems
  /\ Matches(m_handlers[on_receive[rx[1]]], rx[2]) = {}
  /\ fired = <<>>

\* C18: a dispatch reads nothing of the list once it has called a handler.
\* The step that calls the handler calls that one handler; whatever the
\* handler did to the lists (registered a route, let go of an item, its own
\* included), the step after the call is the return: it calls no further
\* handler, leaves the lists as the handler left them, and runs into no
\* fault.
C18_HandlerMayMutate ==
  [][/\ (scan # <<>> /\ scan[1].pc = "loop" /\ scan' # <<>>
           /\ scan'[1].pc = "called")
          => /\ Len(fired') = 1
             /\ \E i \in Matches(m_handlers[scan[1].self], scan[1].id) :
                  fired'[1] = m_handlers[scan[1].self][i].handler
             /\ ~fault'
     /\ (scan # <<>> /\ scan[1].pc = "called")
          => /\ scan' = <<>>
             /\ fired' = fired
             /\ m_handlers' = m_handlers
             /\ UNCHANGED <<life, m_can, on_receive, rx>>
             /\ ~fault']_vars

\* A dispatch returned after its handler let go of the item of its own route
C18_Witness ==
  /\ scan = <<>>
  /\ rx # <<>>
  /\ Len(fired) = 1
  /\ fired[1] # noop
  /\ fired[1] \notin Linked
  /\ ~fault

\* C15: nothing excludes a dispatch and the release of an item from one
\* another. A dispatch that runs as a whole between two steps of the
\* application calls only handlers of routes that are in the list, and an
\* item that was let go is in no list, so such a dispatch never calls the
\* handler of a route whose item was let go; a dispatch that is followed
\* step by step calls the handler of a route that is in no list only when
\* the item its iterator points at left the list while the iterator stood
\* there. C15_Witness is that state.
C15_StaleCallNeedsInterleaving ==
  [][/\ \A c \in Cans, id \in Ids :
          (Receive(c, id) /\ Routed(c))
          => \A i \in 1..Len(fired') :
               \E j \in 1..Len(m_handlers[on_receive[c]]) :
                 fired'[i] = m_handlers[on_receive[c]][j].handler
     /\ \A k \in Items : Discard(k) => k \notin Linked'
     /\ (scan # <<>> /\ scan[1].pc = "loop" /\ scan' # <<>>
           /\ scan'[1].pc = "called" /\ fired'[1] # noop
           /\ fired'[1] \notin Linked)
          => /\ scan[1].it # <<>>
             /\ Where(m_handlers[scan[1].self], scan[1].it[1].item) = {}
             /\ fired'[1] = scan[1].it[1].handler]_vars

\* A dispatch has called the handler of a route whose item was let go while
\* the loop was under way
C15_Witness ==
  /\ scan # <<>>
  /\ scan[1].pc = "called"
  /\ Len(fired) = 1
  /\ fired[1] # noop
  /\ fired[1] \notin Linked
  /\ ~fault
====
